---- MODULE Spec2Model ----
(***************************************************************************)
(* Sports Tournament Management System - core models (src/main.py).        *)
(* Player, Team and Match are modelled field by field.  A Team object and   *)
(* a Match object are driven by arbitrary sequences of method calls.        *)
(***************************************************************************)
EXTENDS Integers, Sequences, FiniteSets, TLC

(* ------------------------------------------------------------------ *)
(* Bounds of the model                                                  *)
(* ------------------------------------------------------------------ *)
\* update_stats is called at most MaxMatches times between two resets
MaxMatches == 3
\* a team scores or concedes 0 or MaxGoals goals in one update_stats call
MaxGoals == 2
\* scores passed to record_result range over -1..MaxScore
MaxScore == 2
\* record_result is called at most MaxRecords times on the match
MaxRecords == 3

Goals == {0, MaxGoals}
Scores == (0 - 1)..MaxScore
\* 'forfeit' stands for any result string update_stats does not recognise
Results == {"win", "draw", "loss", "forfeit"}
Recognized == {"win", "draw", "loss"}
Dates == {"2024-05-01", "2024-06-01"}
Venues == {"North", "South"}
TeamIds == {"t1", "t2"}

(* ------------------------------------------------------------------ *)
(* Python values                                                        *)
(* ------------------------------------------------------------------ *)
\* None and a set optional value; an optional field holds None or Some(v)
None == <<>>
Some(v) == <<v>>

\* data[key] for a key the mapping holds, data.get(key, default)
Get(data, key, default) == IF key \in DOMAIN data THEN data[key] ELSE default

\* the n-th identifier str(uuid.uuid4()) yields during one call
uuid4(n) == <<"g1", "g2", "g3", "g4", "g5", "g6">>[n]
\* datetime.now().strftime("%Y-%m-%d") at the time of a from_dict call
now == "2026-01-01"

(* ------------------------------------------------------------------ *)
(* Player                                                               *)
(* ------------------------------------------------------------------ *)
Player(pname, age, position, jersey_number, pcontact, uuid) ==
    [player_id |-> uuid, name |-> pname, age |-> age, position |-> position,
     jersey_number |-> jersey_number, contact |-> pcontact]

Player_to_dict(p) ==
    [player_id |-> p.player_id, name |-> p.name, age |-> p.age,
     position |-> p.position, jersey_number |-> p.jersey_number,
     contact |-> p.contact]

Player_from_dict(data, uuid) ==
    LET player == Player(data["name"], data["age"], data["position"],
                         data["jersey_number"], data["contact"], uuid)
    IN  [player EXCEPT !.player_id = data["player_id"]]

\* the players a caller may construct and hand to add_player
Players ==
    { Player("Ann", 21, "GK", 7, "555-01", "u1"),
      Player("Bob", 24, "FW", 7, "555-02", "u2"),
      Player("Cy", 19, "MF", 10, "555-03", "u3") }
\* the identifiers a caller may hand to remove_player ("u9" names no player)
PlayerIds == {"u1", "u2", "u3", "u9"}

VARIABLES
    \* Team
    team_id, name, coach, contact, players, registration_date,
    matches_played, wins, draws, losses, goals_for, goals_against, points,
    \* Match
    match_id, tournament_id, team1_id, team2_id, match_date, venue,
    team1_score, team2_score, status, winner_id,
    \* the last call made, the value it returned, the exception it raised
    call, ret, err,
    \* history: some update_stats call so far had an unrecognised result
    other_seen,
    \* history: the number of record_result calls so far
    recorded

identityVars == <<team_id, name, coach, contact, registration_date>>
statVars == <<matches_played, wins, draws, losses, goals_for, goals_against, points>>
teamVars == <<identityVars, players, statVars>>
matchVars == <<match_id, tournament_id, team1_id, team2_id, match_date, venue,
               team1_score, team2_score, status, winner_id>>
vars == <<teamVars, matchVars, call, ret, err, other_seen, recorded>>

(* ------------------------------------------------------------------ *)
(* Team                                                                 *)
(* ------------------------------------------------------------------ *)
\* Team.__init__ as a value: the fields of a newly constructed team
Team(tname, tcoach, tcontact, uuid, today) ==
    [team_id |-> uuid, name |-> tname, coach |-> tcoach, contact |-> tcontact,
     players |-> <<>>, registration_date |-> today,
     matches_played |-> 0, wins |-> 0, draws |-> 0, losses |-> 0,
     goals_for |-> 0, goals_against |-> 0, points |-> 0]

\* the team object the model drives, as a value
self_team ==
    [team_id |-> team_id, name |-> name, coach |-> coach, contact |-> contact,
     players |-> players, registration_date |-> registration_date,
     matches_played |-> matches_played, wins |-> wins, draws |-> draws,
     losses |-> losses, goals_for |-> goals_for,
     goals_against |-> goals_against, points |-> points]

\* the state right after Team(tname, tcoach, tcontact)
NewTeam(tname, tcoach, tcontact, uuid, today) ==
    LET t == Team(tname, tcoach, tcontact, uuid, today)
    IN  /\ team_id = t.team_id
        /\ name = t.name
        /\ coach = t.coach
        /\ contact = t.contact
        /\ players = t.players
        /\ registration_date = t.registration_date
        /\ matches_played = t.matches_played
        /\ wins = t.wins
        /\ draws = t.draws
        /\ losses = t.losses
        /\ goals_for = t.goals_for
        /\ goals_against = t.goals_against
        /\ points = t.points

add_player_no_check(player) ==
    /\ err' = "none"
    /\ players' = Append(players, player)
    /\ call' = <<"add_player", player>>
    /\ ret' = None
    /\ UNCHANGED <<identityVars, statVars, matchVars>>

add_player_checks_id(player) ==
    /\ IF \E i \in DOMAIN players : players[i].player_id = player.player_id
       THEN err' = "ValueError" /\ players' = players
       ELSE err' = "none" /\ players' = Append(players, player)
    /\ call' = <<"add_player", player>>
    /\ ret' = None
    /\ UNCHANGED <<identityVars, statVars, matchVars>>

add_player(player) ==
    /\ IF \E i \in DOMAIN players : players[i].jersey_number = player.jersey_number
       THEN err' = "ValueError" /\ players' = players
       ELSE err' = "none" /\ players' = Append(players, player)
    /\ call' = <<"add_player", player>>
    /\ ret' = None
    /\ UNCHANGED <<identityVars, statVars, matchVars>>

remove_player(player_id) ==
    /\ players' = SelectSeq(players, LAMBDA p : p.player_id # player_id)
    /\ call' = <<"remove_player", player_id>>
    /\ ret' = None
    /\ err' = "none"
    /\ UNCHANGED <<identityVars, statVars, matchVars>>

get_goal_difference ==
    /\ ret' = goals_for - goals_against
    /\ call' = <<"get_goal_difference">>
    /\ err' = "none"
    /\ UNCHANGED <<teamVars, matchVars>>

update_stats_win_two_points(gf, ga, result) ==
    /\ matches_played' = matches_played + 1
    /\ goals_for' = goals_for + gf
    /\ goals_against' = goals_against + ga
    /\ wins' = IF result = "win" THEN wins + 1 ELSE wins
    /\ draws' = IF result = "draw" THEN draws + 1 ELSE draws
    /\ losses' = IF result = "loss" THEN losses + 1 ELSE losses
    /\ points' = IF result = "win" THEN points + 2
                 ELSE IF result = "draw" THEN points + 1
                 ELSE points
    /\ call' = <<"update_stats", gf, ga, result>>
    /\ ret' = None
    /\ err' = "none"
    /\ UNCHANGED <<identityVars, players, matchVars>>

update_stats_else_is_loss(gf, ga, result) ==
    /\ matches_played' = matches_played + 1
    /\ goals_for' = goals_for + gf
    /\ goals_against' = goals_against + ga
    /\ wins' = IF result = "win" THEN wins + 1 ELSE wins
    /\ draws' = IF result = "draw" THEN draws + 1 ELSE draws
    /\ losses' = IF result \notin {"win", "draw"} THEN losses + 1 ELSE losses
    /\ points' = IF result = "win" THEN points + 3
                 ELSE IF result = "draw" THEN points + 1
                 ELSE points
    /\ call' = <<"update_stats", gf, ga, result>>
    /\ ret' = None
    /\ err' = "none"
    /\ UNCHANGED <<identityVars, players, matchVars>>

update_stats_no_loss_branch(gf, ga, result) ==
    /\ matches_played' = matches_played + 1
    /\ goals_for' = goals_for + gf
    /\ goals_against' = goals_against + ga
    /\ wins' = IF result = "win" THEN wins + 1 ELSE wins
    /\ draws' = IF result = "draw" THEN draws + 1 ELSE draws
    /\ losses' = losses
    /\ points' = IF result = "win" THEN points + 3
                 ELSE IF result = "draw" THEN points + 1
                 ELSE points
    /\ call' = <<"update_stats", gf, ga, result>>
    /\ ret' = None
    /\ err' = "none"
    /\ UNCHANGED <<identityVars, players, matchVars>>

update_stats(gf, ga, result) ==
    /\ matches_played' = matches_played + 1
    /\ goals_for' = goals_for + gf
    /\ goals_against' = goals_against + ga
    /\ wins' = IF result = "win" THEN wins + 1 ELSE wins
    /\ draws' = IF result = "draw" THEN draws + 1 ELSE draws
    /\ losses' = IF result = "loss" THEN losses + 1 ELSE losses
    /\ points' = IF result = "win" THEN points + 3
                 ELSE IF result = "draw" THEN points + 1
                 ELSE points
    /\ call' = <<"update_stats", gf, ga, result>>
    /\ ret' = None
    /\ err' = "none"
    /\ UNCHANGED <<identityVars, players, matchVars>>

reset_stats_keeps_points ==
    /\ matches_played' = 0
    /\ wins' = 0
    /\ draws' = 0
    /\ losses' = 0
    /\ goals_for' = 0
    /\ goals_against' = 0
    /\ points' = points
    /\ call' = <<"reset_stats">>
    /\ ret' = None
    /\ err' = "none"
    /\ UNCHANGED <<identityVars, players, matchVars>>

reset_stats ==
    /\ matches_played' = 0
    /\ wins' = 0
    /\ draws' = 0
    /\ losses' = 0
    /\ goals_for' = 0
    /\ goals_against' = 0
    /\ points' = 0
    /\ call' = <<"reset_stats">>
    /\ ret' = None
    /\ err' = "none"
    /\ UNCHANGED <<identityVars, players, matchVars>>

Team_to_dict(t) ==
    [team_id |-> t.team_id, name |-> t.name, coach |-> t.coach,
     contact |-> t.contact,
     players |-> [i \in DOMAIN t.players |-> Player_to_dict(t.players[i])],
     registration_date |-> t.registration_date,
     matches_played |-> t.matches_played, wins |-> t.wins, draws |-> t.draws,
     losses |-> t.losses, goals_for |-> t.goals_for,
     goals_against |-> t.goals_against, points |-> t.points]

Team_from_dict_keeps_new_id(data) ==
    LET team == Team(data["name"], data["coach"], data["contact"], uuid4(1), now)
        ps == Get(data, "players", <<>>)
    IN  [team EXCEPT
            !.players = [i \in DOMAIN ps |-> Player_from_dict(ps[i], uuid4(1 + i))],
            !.registration_date = Get(data, "registration_date", now),
            !.matches_played = Get(data, "matches_played", 0),
            !.wins = Get(data, "wins", 0),
            !.draws = Get(data, "draws", 0),
            !.losses = Get(data, "losses", 0),
            !.goals_for = Get(data, "goals_for", 0),
            !.goals_against = Get(data, "goals_against", 0),
            !.points = Get(data, "points", 0)]

Team_from_dict(data) ==
    LET team == Team(data["name"], data["coach"], data["contact"], uuid4(1), now)
        ps == Get(data, "players", <<>>)
    IN  [team EXCEPT
            !.team_id = data["team_id"],
            !.players = [i \in DOMAIN ps |-> Player_from_dict(ps[i], uuid4(1 + i))],
            !.registration_date = Get(data, "registration_date", now),
            !.matches_played = Get(data, "matches_played", 0),
            !.wins = Get(data, "wins", 0),
            !.draws = Get(data, "draws", 0),
            !.losses = Get(data, "losses", 0),
            !.goals_for = Get(data, "goals_for", 0),
            !.goals_against = Get(data, "goals_against", 0),
            !.points = Get(data, "points", 0)]

\* a caller serialises the team and rebuilds it: Team.from_dict(team.to_dict())
round_trip ==
    /\ ret' = Team_from_dict(Team_to_dict(self_team))
    /\ call' = <<"round_trip">>
    /\ err' = "none"
    /\ UNCHANGED <<teamVars, matchVars>>

(* ------------------------------------------------------------------ *)
(* Match                                                                *)
(* ------------------------------------------------------------------ *)
\* Match.__init__ as a value: the fields of a newly constructed match
Match(tid, t1, t2, uuid) ==
    [match_id |-> uuid, tournament_id |-> tid, team1_id |-> t1, team2_id |-> t2,
     match_date |-> None, venue |-> None, team1_score |-> None,
     team2_score |-> None, status |-> "scheduled", winner_id |-> None]

\* the state right after Match(tid, t1, t2)
NewMatch(tid, t1, t2, uuid) ==
    LET m == Match(tid, t1, t2, uuid)
    IN  /\ match_id = m.match_id
        /\ tournament_id = m.tournament_id
        /\ team1_id = m.team1_id
        /\ team2_id = m.team2_id
        /\ match_date = m.match_date
        /\ venue = m.venue
        /\ team1_score = m.team1_score
        /\ team2_score = m.team2_score
        /\ status = m.status
        /\ winner_id = m.winner_id

set_schedule_reopens(date, place) ==
    /\ match_date' = Some(date)
    /\ venue' = Some(place)
    /\ status' = "scheduled"
    /\ call' = <<"set_schedule", date, place>>
    /\ ret' = None
    /\ err' = "none"
    /\ UNCHANGED <<match_id, tournament_id, team1_id, team2_id,
                   team1_score, team2_score, winner_id, teamVars>>

set_schedule(date, place) ==
    /\ match_date' = Some(date)
    /\ venue' = Some(place)
    /\ call' = <<"set_schedule", date, place>>
    /\ ret' = None
    /\ err' = "none"
    /\ UNCHANGED <<match_id, tournament_id, team1_id, team2_id,
                   team1_score, team2_score, status, winner_id, teamVars>>

record_result_no_winner_on_draw(s1, s2) ==
    /\ team1_score' = Some(s1)
    /\ team2_score' = Some(s2)
    /\ status' = "completed"
    /\ winner_id' = IF s1 > s2 THEN Some(team1_id)
                    ELSE IF s2 > s1 THEN Some(team2_id)
                    ELSE winner_id
    /\ call' = <<"record_result", s1, s2>>
    /\ ret' = None
    /\ err' = "none"
    /\ UNCHANGED <<match_id, tournament_id, team1_id, team2_id,
                   match_date, venue, teamVars>>

record_result_keeps_first_winner(s1, s2) ==
    /\ team1_score' = Some(s1)
    /\ team2_score' = Some(s2)
    /\ status' = "completed"
    /\ winner_id' = IF winner_id # None THEN winner_id
                    ELSE IF s1 > s2 THEN Some(team1_id)
                    ELSE IF s2 > s1 THEN Some(team2_id)
                    ELSE Some("draw")
    /\ call' = <<"record_result", s1, s2>>
    /\ ret' = None
    /\ err' = "none"
    /\ UNCHANGED <<match_id, tournament_id, team1_id, team2_id,
                   match_date, venue, teamVars>>

record_result(s1, s2) ==
    /\ team1_score' = Some(s1)
    /\ team2_score' = Some(s2)
    /\ status' = "completed"
    /\ winner_id' = IF s1 > s2 THEN Some(team1_id)
                    ELSE IF s2 > s1 THEN Some(team2_id)
                    ELSE Some("draw")
    /\ call' = <<"record_result", s1, s2>>
    /\ ret' = None
    /\ err' = "none"
    /\ UNCHANGED <<match_id, tournament_id, team1_id, team2_id,
                   match_date, venue, teamVars>>

\* the f-strings are modelled as the tuples of their parts
get_result ==
    /\ ret' = IF status # "completed" THEN <<"Match not completed">>
              ELSE IF winner_id = Some("draw")
                   THEN <<"Draw ", team1_score[1], "-", team2_score[1]>>
                   ELSE <<"Winner: ", winner_id[1]>>
    /\ call' = <<"get_result">>
    /\ err' = "none"
    /\ UNCHANGED <<matchVars, teamVars>>

(* ------------------------------------------------------------------ *)
(* Specifications                                                       *)
(* ------------------------------------------------------------------ *)
\* a team under any sequence of calls; the match is left as constructed
InitTeam ==
    /\ NewTeam("Lions", "Kim", "555-10", "t1", "2024-01-15")
    /\ NewMatch("c1", "t1", "t2", "m1")
    /\ call = <<"__init__">>
    /\ ret = None
    /\ err = "none"
    /\ other_seen = FALSE
    /\ recorded = 0

NextTeam ==
    \/ \E player \in Players :
          add_player(player) /\ UNCHANGED <<other_seen, recorded>>
    \/ \E player_id \in PlayerIds :
          remove_player(player_id) /\ UNCHANGED <<other_seen, recorded>>
    \/ /\ matches_played < MaxMatches
       /\ \E gf \in Goals, ga \in Goals, result \in Results :
             /\ update_stats(gf, ga, result)
             /\ other_seen' = (other_seen \/ result \notin Recognized)
             /\ UNCHANGED recorded
    \/ reset_stats /\ UNCHANGED <<other_seen, recorded>>
    \/ get_goal_difference /\ UNCHANGED <<other_seen, recorded>>
    \/ round_trip /\ UNCHANGED <<other_seen, recorded>>

SpecTeam == InitTeam /\ [][NextTeam]_vars

\* a match under any sequence of calls; the team is left as constructed
InitMatch ==
    /\ NewTeam("Lions", "Kim", "555-10", "t1", "2024-01-15")
    /\ \E t1 \in TeamIds, t2 \in TeamIds : NewMatch("c1", t1, t2, "m1")
    /\ call = <<"__init__">>
    /\ ret = None
    /\ err = "none"
    /\ other_seen = FALSE
    /\ recorded = 0

NextMatch ==
    \/ \E date \in Dates, place \in Venues :
          set_schedule(date, place) /\ UNCHANGED <<other_seen, recorded>>
    \/ /\ recorded < MaxRecords
       /\ \E s1 \in Scores, s2 \in Scores :
             /\ record_result(s1, s2)
             /\ recorded' = recorded + 1
             /\ UNCHANGED other_seen
    \/ get_result /\ UNCHANGED <<other_seen, recorded>>

SpecMatch == InitMatch /\ [][NextMatch]_vars

(* ------------------------------------------------------------------ *)
(* Properties of Team                                                   *)
(* ------------------------------------------------------------------ *)
HasJersey(ps, n) == \E i \in DOMAIN ps : ps[i].jersey_number = n

\* C1: add_player of a player whose jersey number is already worn by a
\* player of the list raises the error and leaves the list as it was.
C1_DuplicateJerseyRejected ==
    [][(call'[1] = "add_player" /\ HasJersey(players, call'[2].jersey_number))
         => (err' = "ValueError" /\ players' = players)]_vars

\* p1 is the only player and the add_player of another player p2 with p1's
\* jersey number has just raised
C1_Witness ==
    /\ call[1] = "add_player"
    /\ err = "ValueError"
    /\ Len(players) = 1
    /\ players[1].player_id # call[2].player_id
    /\ players[1].jersey_number = call[2].jersey_number

\* C2: no two players of the list have the same jersey number.
C2_JerseyNumbersUnique ==
    \A i \in DOMAIN players : \A j \in DOMAIN players :
        i # j => players[i].jersey_number # players[j].jersey_number

\* a list of two players on which an add_player has just failed
C2_Witness ==
    /\ Len(players) = 2
    /\ call[1] = "add_player"
    /\ err = "ValueError"

\* C3: points = 3*wins + 1*draws after any update_stats and reset_stats calls,
\* unrecognised results included.
C3_PointsFormula == points = 3 * wins + 1 * draws

\* a win, a draw and an unrecognised result have been counted
C3_Witness ==
    /\ wins > 0
    /\ draws > 0
    /\ other_seen
    /\ matches_played > wins + draws

\* C4: update_stats(gf, ga, result) adds 1 to matches_played, gf to goals_for
\* and ga to goals_against whatever result is; win adds 1 to wins and 3 to
\* points, draw 1 to draws and 1 to points, loss 1 to losses; every other
\* counter, and all four for any other result, is unchanged.
C4_UpdateStatsEffect ==
    [][call'[1] = "update_stats" =>
         LET gf == call'[2]
             ga == call'[3]
             result == call'[4]
         IN  /\ matches_played' = matches_played + 1
             /\ goals_for' = goals_for + gf
             /\ goals_against' = goals_against + ga
             /\ result = "win" =>
                   /\ wins' = wins + 1
                   /\ points' = points + 3
                   /\ UNCHANGED <<draws, losses>>
             /\ result = "draw" =>
                   /\ draws' = draws + 1
                   /\ points' = points + 1
                   /\ UNCHANGED <<wins, losses>>
             /\ result = "loss" =>
                   /\ losses' = losses + 1
                   /\ UNCHANGED <<wins, draws, points>>
             /\ result \notin {"win", "draw", "loss"} =>
                   UNCHANGED <<wins, draws, losses, points>>]_vars

\* an update_stats with an unrecognised result and non-zero goals has just
\* run on a team that had a win and a loss
C4_Witness ==
    /\ call[1] = "update_stats"
    /\ call[2] = MaxGoals
    /\ call[3] = MaxGoals
    /\ call[4] = "forfeit"
    /\ wins = 1
    /\ losses = 1

\* C8: reset_stats sets the seven statistics to 0 and leaves the player list
\* and team_id, name, coach, contact, registration_date unchanged.
C8_ResetStatsEffect ==
    [][call'[1] = "reset_stats" =>
         /\ matches_played' = 0
         /\ wins' = 0
         /\ draws' = 0
         /\ losses' = 0
         /\ goals_for' = 0
         /\ goals_against' = 0
         /\ points' = 0
         /\ players' = players
         /\ UNCHANGED <<team_id, name, coach, contact, registration_date>>]_vars

\* reset_stats has just run on a team with two players that had played
C8_Witness ==
    /\ call[1] = "reset_stats"
    /\ other_seen
    /\ Len(players) = 2
    /\ matches_played = 0

SamePlayer(p, q) ==
    /\ p.player_id = q.player_id
    /\ p.name = q.name
    /\ p.age = q.age
    /\ p.position = q.position
    /\ p.jersey_number = q.jersey_number
    /\ p.contact = q.contact

\* C9: Team.from_dict(team.to_dict()) has the team's team_id, the same
\* players in the same order, field by field, and the same seven statistics.
C9_TeamRoundTrip ==
    call[1] = "round_trip" =>
        /\ ret.team_id = team_id
        /\ DOMAIN ret.players = DOMAIN players
        /\ \A i \in DOMAIN players : SamePlayer(ret.players[i], players[i])
        /\ ret.matches_played = matches_played
        /\ ret.wins = wins
        /\ ret.draws = draws
        /\ ret.losses = losses
        /\ ret.goals_for = goals_for
        /\ ret.goals_against = goals_against
        /\ ret.points = points

\* a team with two players and populated statistics has just been rebuilt
C9_Witness ==
    /\ call[1] = "round_trip"
    /\ Len(players) = 2
    /\ points > 0
    /\ losses > 0
    /\ goals_for > 0
    /\ goals_against > 0

\* C10: matches_played >= wins + draws + losses always, with equality as long
\* as every update_stats call had a result among win, draw, loss.
C10_MatchesPlayedSplit ==
    /\ matches_played >= wins + draws + losses
    /\ ~other_seen => matches_played = wins + draws + losses

\* a win, a draw and a loss have been counted and no other result was passed
C10_Witness ==
    /\ ~other_seen
    /\ wins > 0
    /\ draws > 0
    /\ losses > 0

(* ------------------------------------------------------------------ *)
(* Properties of Match                                                  *)
(* ------------------------------------------------------------------ *)
\* C5: status is "completed" exactly when team1_score, team2_score and
\* winner_id are all set; while it is "scheduled" all three are unset.
C5_CompletedIffResultSet ==
    /\ status \in {"scheduled", "completed"}
    /\ status = "completed" <=>
          (team1_score # None /\ team2_score # None /\ winner_id # None)
    /\ status = "scheduled" =>
          (team1_score = None /\ team2_score = None /\ winner_id = None)

\* a drawn result has just been recorded
C5_Witness ==
    /\ call[1] = "record_result"
    /\ status = "completed"
    /\ winner_id = Some("draw")
    /\ recorded = 1

\* C6: a match starts "scheduled"; status only ever changes from "scheduled"
\* to "completed" and only in a record_result call; set_schedule changes
\* neither status nor scores nor winner_id; "completed" is never left.
C6_StatusMachine ==
    /\ status = "scheduled"
    /\ [][/\ status' # status =>
                /\ status = "scheduled"
                /\ status' = "completed"
                /\ call'[1] = "record_result"
          /\ call'[1] = "set_schedule" =>
                UNCHANGED <<status, team1_score, team2_score, winner_id>>
          /\ status = "completed" => status' = "completed"]_vars

\* set_schedule has just run on a completed match
C6_Witness ==
    /\ call[1] = "set_schedule"
    /\ status = "completed"
    /\ match_date # None

\* C7: record_result(s1, s2), on a scheduled or a completed match, stores both
\* scores, sets status to "completed" and winner_id to team1_id if s1 > s2,
\* team2_id if s2 > s1, "draw" if s1 = s2, whatever was recorded before.
C7_RecordResultEffect ==
    [][call'[1] = "record_result" =>
         LET s1 == call'[2]
             s2 == call'[3]
         IN  /\ team1_score' = Some(s1)
             /\ team2_score' = Some(s2)
             /\ status' = "completed"
             /\ s1 > s2 => winner_id' = Some(team1_id)
             /\ s2 > s1 => winner_id' = Some(team2_id)
             /\ s1 = s2 => winner_id' = Some("draw")
             /\ UNCHANGED <<team1_id, team2_id>>]_vars

\* a second or later record_result has just run, and team 2 won it
C7_Witness ==
    /\ call[1] = "record_result"
    /\ recorded >= 2
    /\ team1_id # team2_id
    /\ team2_score[1] > team1_score[1]
    /\ winner_id = Some(team2_id)

====
